---- MODULE Spec2Model ----
(***************************************************************************)
(* The photo booth: the App session aggregator (App.tsx), the capture      *)
(* controller WebcamCapture (countdown effect, capturePhoto, startWebcam   *)
(* and the webcam lifecycle effect) and the render loop FilterOverlay.     *)
(*                                                                         *)
(* The repository holds two builds of the capture component and of the     *)
(* render loop:                                                            *)
(*   "src" : src/src/components/WebcamCapture.tsx with the PixiJS          *)
(*           FilterOverlay.tsx;                                           *)
(*   "alt" : src/unnamed/part_001, the 2D-canvas FilterOverlay with the    *)
(*           4-panel WebcamCapture that waits for loadedmetadata/canplay.  *)
(* The variable build selects one of them for a whole behaviour.           *)
(*                                                                         *)
(* React is modelled operationally: an event handler updates state and     *)
(* marks the tree dirty; the action Render commits the pending render and  *)
(* runs, in one step, the effect cleanups and the effects whose            *)
(* dependencies changed.  Everything a handler does up to its first await  *)
(* is one action; each await is a position (pc) of a task.                 *)
(***************************************************************************)
EXTENDS Integers, Sequences, FiniteSets, TLC

photosNeeded == 4

countdownDuration == 3

\* Bounds of the model.
MaxStreams == 1

MaxLoops == 2

MaxWidth == 3

Builds == {"src", "alt"}

Filters == {"normal", "sparkle"}

NoCanvas == "null"

VARIABLES
  build,          \* which build of WebcamCapture/FilterOverlay runs
  photos,         \* App: photos (sequence of Photo records)
  isCapturing,    \* App: isCapturing, never reset to false by the code
  selectedFilter, \* App: selectedFilter
  countdown,      \* WebcamCapture: countdown
  error,          \* WebcamCapture: error /= null
  stream,         \* WebcamCapture: stream (0 is null, else a MediaStream id)
  isVideoLoaded,  \* WebcamCapture: isVideoLoaded
  filteredCanvas, \* WebcamCapture: filteredCanvas (NoCanvas, "current", "stale")
  dirty,          \* "none", or which component has a render pending
  r,              \* the values committed by the last render (closures read them)
  timers,         \* the isMounted flags of the pending sleep(1000) of runCountdown
  video,          \* the <video> element: srcObject and readiness reached
  live,           \* MediaStream ids whose tracks are running
  nextStream,     \* the next MediaStream id getUserMedia hands out
  tasks,          \* startWebcam calls in flight
  fo,             \* FilterOverlay instance: refs and whether a cleanup is registered
  inits,          \* initPixiApp calls waiting for loadedmetadata
  chains,         \* requestAnimationFrame callback chains with a callback scheduled
  last,           \* what the last step did (history, read by the properties)
  px,             \* the pixels of one capture: frame, surface and photo rows
  loop,           \* one render loop against the clock of requestAnimationFrame
  stickers,       \* StickersOverlay: selectedSticker and stickerPositions
  image,          \* ImageFilter: the pixel it is given and the pixel it leaves
  shot            \* the filter of each output surface and of each Photo

vars == <<build, photos, isCapturing, selectedFilter, countdown, error, stream,
          isVideoLoaded, filteredCanvas, dirty, r, timers, video, live,
          nextStream, tasks, fo, inits, chains, last, px, loop, stickers,
          image, shot>>

\* The variables of the booth proper, and those of its parts studied alone.
boothVars == <<build, photos, isCapturing, selectedFilter, countdown, error,
               stream, isVideoLoaded, filteredCanvas, dirty, r, timers, video,
               live, nextStream, tasks, fo, inits, chains, last>>

partVars == <<px, loop, stickers, image, shot>>

----------------------------------------------------------------------------
(* The state as one record, so that the steps of a handler compose.        *)

World ==
  [build |-> build, photos |-> photos, isCapturing |-> isCapturing,
   selectedFilter |-> selectedFilter,
   countdown |-> countdown, error |-> error, stream |-> stream,
   isVideoLoaded |-> isVideoLoaded, filteredCanvas |-> filteredCanvas,
   dirty |-> dirty, r |-> r, timers |-> timers, video |-> video, live |-> live,
   nextStream |-> nextStream, tasks |-> tasks, fo |-> fo, inits |-> inits,
   chains |-> chains, last |-> last]

Install(w) ==
  /\ build' = w.build
  /\ photos' = w.photos
  /\ isCapturing' = w.isCapturing
  /\ selectedFilter' = w.selectedFilter
  /\ countdown' = w.countdown
  /\ error' = w.error
  /\ stream' = w.stream
  /\ isVideoLoaded' = w.isVideoLoaded
  /\ filteredCanvas' = w.filteredCanvas
  /\ dirty' = w.dirty
  /\ r' = w.r
  /\ timers' = w.timers
  /\ video' = w.video
  /\ live' = w.live
  /\ nextStream' = w.nextStream
  /\ tasks' = w.tasks
  /\ fo' = w.fo
  /\ inits' = w.inits
  /\ chains' = w.chains
  /\ last' = w.last
  /\ UNCHANGED partVars

\* What a step records about itself: whether capturePhoto was called, which
\* kind of chain called onFilteredFrame, which kind of sleep ended, the
\* stream obtained by a startWebcam call that ended in its catch, and the
\* stream obtained by a startWebcam call that ended after its WebcamCapture
\* had unmounted (-1: no such call, 0: the call had obtained no stream), and
\* whether the cleanup of the FilterOverlay effect ran.
NoEvent ==
  [capture |-> "none", publish |-> "none", sleep |-> "none",
   caught |-> -1, orphaned |-> -1, failed |-> FALSE, cleanup |-> FALSE]

\* failed is kept from step to step: a startWebcam call of the mounted
\* component ended in its catch and none has reached setStream since.
Mark(w) == [w EXCEPT !.last = [NoEvent EXCEPT !.failed = w.last.failed]]

\* useState setters.  React bails out of an update to an identical value.
SetApp(w, f, v) == [w EXCEPT ![f] = v, !.dirty = "app"]

SetCam(w, f, v) ==
  IF w[f] = v THEN w
  ELSE [w EXCEPT ![f] = v, !.dirty = IF w.dirty = "app" THEN "app" ELSE "cam"]

\* A setter called by code of a WebcamCapture instance that may be unmounted
\* (live = FALSE): React ignores it then.
SetCamIf(w, alive, f, v) == IF alive THEN SetCam(w, f, v) ELSE w

----------------------------------------------------------------------------
(* Media streams and the <video> element.                                  *)

\* stream.getTracks().forEach(track => track.stop()), under "if (stream)".
StopTracks(w, s) == IF s = 0 THEN w ELSE [w EXCEPT !.live = @ \ {s}]

\* video.srcObject = s.  The element starts over: videoWidth is 0 until the
\* new source's metadata is loaded.
SetSrcObject(w, s) == [w EXCEPT !.video = [srcObject |-> s, ready |-> 0]]

NoVideo == [srcObject |-> 0, ready |-> 0]

----------------------------------------------------------------------------
(* App.tsx: the session aggregator.                                        *)

\* handlePhotoCaptured as created by the App render that committed c.
\* Toasts and confetti are presentation and are left out.  The callback of
\* setTimeout(() => setIsCapturing(true), 1000) is an update to the value
\* isCapturing already has (a capture needs ticks, ticks need isCapturing, and
\* nothing resets it), whenever it runs: it is applied at once.
\* A faulty handlePhotoCaptured: the photo is stored twice.
handlePhotoCapturedTwice(w, c) ==
  LET one == [filter |-> c.filter]
  IN  SetApp(w, "photos", Append(Append(w.photos, one), one))

handlePhotoCaptured(w, c) ==
  LET w1 == SetApp(w, "photos", Append(w.photos, [filter |-> c.filter]))
  IN  IF c.photosLen + 1 < photosNeeded
      THEN [w1 EXCEPT !.isCapturing = TRUE]
      ELSE w1

----------------------------------------------------------------------------
(* WebcamCapture: capturePhoto and the countdown effect.                   *)

\* A faulty capturePhoto: the readiness guard is missing.
capturePhotoUnguarded(w, c, videoRef) == handlePhotoCaptured(w, c)

\* capturePhoto as memoised by the render that committed c; videoRef says
\* whether videoRef.current is set when it is called.
capturePhoto(w, c, videoRef) ==
  IF ~videoRef \/ c.filteredCanvas = NoCanvas \/ ~c.isVideoLoaded
  THEN w
  ELSE handlePhotoCaptured(w, c)

\* A faulty runCountdown: at 0 it re-arms without calling capturePhoto.
runCountdownNoCapture(w, c) ==
  IF c.isCountdownActive /\ c.countdown > 0
  THEN [w EXCEPT !.timers = @ \cup {TRUE}]
  ELSE IF c.countdown = 0
       THEN SetCam([w EXCEPT !.last.capture = "attempt"],
                   "countdown", countdownDuration)
       ELSE w

\* A faulty runCountdown: at 0 it captures and leaves countdown at 0.
runCountdownNoRearm(w, c) ==
  IF c.isCountdownActive /\ c.countdown > 0
  THEN [w EXCEPT !.timers = @ \cup {TRUE}]
  ELSE IF c.countdown = 0
       THEN capturePhoto([w EXCEPT !.last.capture = "attempt"], c, TRUE)
       ELSE w

\* A faulty runCountdown: it ticks while countdown >= 0.
runCountdownTickAtZero(w, c) ==
  IF c.isCountdownActive /\ c.countdown >= 0
  THEN [w EXCEPT !.timers = @ \cup {TRUE}]
  ELSE w

\* runCountdown up to its await.  The effect's isMounted is still true in the
\* synchronous branch.
runCountdown(w, c) ==
  IF c.isCountdownActive /\ c.countdown > 0
  THEN [w EXCEPT !.timers = @ \cup {TRUE}]
  ELSE IF c.countdown = 0
       THEN SetCam(capturePhoto([w EXCEPT !.last.capture = "attempt"], c, TRUE),
                   "countdown", countdownDuration)
       ELSE w

\* A faulty countdown effect: it ticks whether or not the countdown is active.
CountdownEffectWhileIdle(w, c) ==
  IF c.countdown > 0 THEN [w EXCEPT !.timers = @ \cup {TRUE}]
  ELSE runCountdown(w, c)

\* The body of the countdown effect.
CountdownEffect(w, c) ==
  IF c.isCountdownActive \/ c.countdown = 0 THEN runCountdown(w, c) ELSE w

\* The effect's cleanup: isMounted = false for the instance being replaced.
CountdownCleanup(w) == [w EXCEPT !.timers = {FALSE : b \in @}]

\* A faulty continuation: isMounted is not consulted.
AfterSleepUncancelled(w, isMounted) == SetCam(w, "countdown", w.countdown - 1)

\* The continuation of runCountdown after await sleep(1000), for an effect
\* instance whose flag is isMounted.
AfterSleep(w, isMounted) ==
  IF isMounted THEN SetCam(w, "countdown", w.countdown - 1) ELSE w

----------------------------------------------------------------------------
(* WebcamCapture: startWebcam and the webcam lifecycle effect.             *)

Task(pc, cstream, ms, orphan) ==
  [pc |-> pc, cstream |-> cstream, ms |-> ms, orphan |-> orphan]

\* startWebcam, memoised with stream = cstream, up to await getUserMedia.
startWebcam(w, cstream) ==
  LET w1 == StopTracks(w, cstream)
      w2 == SetCam(w1, "error", FALSE)
      w3 == SetCam(w2, "isVideoLoaded", FALSE)
  IN  [w3 EXCEPT !.tasks = @ \cup {Task("gum", cstream, 0, FALSE)}]

\* The cleanup of the lifecycle effect that ran with stream = cstream;
\* mounted is false when it runs because the component unmounts.
LifecycleCleanup(w, cstream, mounted) ==
  LET w1 == StopTracks(w, cstream)
      w2 == SetSrcObject(w1, 0)
  IN  SetCamIf(w2, mounted, "isVideoLoaded", FALSE)

\* catch (err) of startWebcam for task t.
Catch(w, t) ==
  LET alive == ~t.orphan
      w1 == SetCamIf([w EXCEPT !.last.caught = t.ms,
                               !.last.failed = @ \/ alive], alive, "error", TRUE)
  IN  IF w.build = "src"
      THEN w1
      ELSE LET w2 == StopTracks(w1, t.cstream)
               w3 == IF alive THEN SetSrcObject(w2, 0) ELSE w2
               w4 == SetCamIf(w3, alive, "stream", 0)
           IN  SetCamIf(w4, alive, "isVideoLoaded", FALSE)

----------------------------------------------------------------------------
(* FilterOverlay: the render loop.                                         *)
(* fo.surface: the output surface exists (src: pixiAppRef.current, alt:    *)
(* the component's canvas).  filteredCanvas is "current" when it holds     *)
(* that surface and "stale" when it holds one that was destroyed or        *)
(* detached.  A chain is alive while the surface its closure holds exists; *)
(* own while the FilterOverlay instance whose frame ref it writes exists;  *)
(* torn once the cleanup of the effect run that started it has run.        *)

NoOverlay == [shown |-> FALSE, hasCleanup |-> FALSE, surface |-> FALSE, frameRef |-> 0]

RemoveAt(s, i) == [j \in 1..(Len(s) - 1) |-> IF j < i THEN s[j] ELSE s[j + 1]]

\* The current surface is destroyed (src: app.destroy) or leaves the page
\* (alt: the canvas of an unmounted FilterOverlay).
DropSurface(w) ==
  [w EXCEPT !.filteredCanvas = IF @ = "current" THEN "stale" ELSE @,
            !.r.filteredCanvas = IF @ = "current" THEN "stale" ELSE @,
            !.fo.surface = FALSE,
            !.chains = [i \in DOMAIN @ |-> [@[i] EXCEPT !.alive = FALSE]]]

\* cancelAnimationFrame(frameIdRef.current) under "if (frameIdRef.current)".
CancelFrame(w) ==
  IF w.fo.frameRef = 0 THEN w
  ELSE [w EXCEPT !.chains = RemoveAt(@, w.fo.frameRef), !.fo.frameRef = 0]

\* The effect run being cleaned up is over: what it started is torn down.
Tear(w) ==
  [w EXCEPT !.chains = [i \in DOMAIN @ |-> [@[i] EXCEPT !.torn = TRUE]],
            !.inits = [i \in DOMAIN @ |-> [@[i] EXCEPT !.torn = TRUE]],
            !.fo.hasCleanup = FALSE]

\* The cleanup returned by the FilterOverlay effect, when the run returned one.
FoCleanup(w) ==
  IF ~w.fo.hasCleanup THEN w
  ELSE LET w1 == [w EXCEPT !.last.cleanup = TRUE]
       IN  IF w.build = "src"
           THEN Tear(DropSurface(CancelFrame(w1)))
           ELSE Tear(CancelFrame(w1))

\* requestAnimationFrame(updateFrame / updateCanvas) by an effect run whose
\* torn flag is given, storing the id in the frame ref.
StartChain(w, torn) ==
  [w EXCEPT !.chains = Append(@, [alive |-> TRUE, own |-> TRUE, torn |-> torn]),
            !.fo.frameRef = Len(w.chains) + 1]

\* initPixiApp after its wait, for the mounted FilterOverlay instance: the
\* Application is created if there is none, then the loop starts.
InitContinue(w, i) == StartChain([w EXCEPT !.fo.surface = TRUE], i.torn)

\* The body of the FilterOverlay effect; videoElement is the prop being set.
FoEffect(w, videoElement) ==
  IF ~videoElement THEN w
  ELSE LET w1 == [w EXCEPT !.fo.hasCleanup = TRUE]
       IN  IF w.build = "src"
           THEN IF w.video.ready = 0
                THEN [w1 EXCEPT !.inits = Append(@, [torn |-> FALSE])]
                ELSE InitContinue(w1, [torn |-> FALSE])
           ELSE StartChain(w1, FALSE)

\* FilterOverlay mounts: fresh refs; the alt build's canvas is part of it.
FoMount(w) ==
  [w EXCEPT !.fo = [NoOverlay EXCEPT !.shown = TRUE, !.surface = (w.build = "alt")]]

\* A faulty unmount of FilterOverlay: the cleanup of its effect does not run.
FoUnmountNoCleanup(w) == [w EXCEPT !.fo = NoOverlay, !.inits = << >>]

\* FilterOverlay unmounts: cleanup, then its refs are gone.  A pending
\* initPixiApp of it finds containerRef.current null and returns.
FoUnmount(w) ==
  LET w1 == DropSurface(FoCleanup(w))
  IN  [w1 EXCEPT !.fo = NoOverlay, !.inits = << >>,
                 !.chains = [i \in DOMAIN @ |-> [@[i] EXCEPT !.own = FALSE]]]

----------------------------------------------------------------------------
(* Render: the commit of a pending render and its effects.                 *)

\* The values a render of App and WebcamCapture reads.  videoElement: whether
\* videoRef.current, read during render, is set (not in a mount's first render).
Snapshot(w, videoElement) ==
  [mounted |-> Len(w.photos) < photosNeeded,
   isCountdownActive |-> w.isCapturing, filter |-> w.selectedFilter,
   photosLen |-> Len(w.photos), countdown |-> w.countdown, error |-> w.error,
   stream |-> w.stream, isVideoLoaded |-> w.isVideoLoaded,
   filteredCanvas |-> w.filteredCanvas, videoElement |-> videoElement]

Unmounted ==
  [mounted |-> FALSE, isCountdownActive |-> FALSE, filter |-> "normal",
   photosLen |-> photosNeeded, countdown |-> countdownDuration, error |-> FALSE,
   stream |-> 0, isVideoLoaded |-> FALSE, filteredCanvas |-> NoCanvas,
   videoElement |-> FALSE]

\* WebcamCapture mounts with the props of c: FilterOverlay's effect returns at
\* once (videoElement is null), the lifecycle effect calls startWebcam, the
\* countdown effect runs.
MountCam(w, c) ==
  CountdownEffect(startWebcam(FoEffect(FoMount(w), FALSE), 0), c)

\* WebcamCapture unmounts (photos.length reached photosNeeded); p is what the
\* last render committed.  Its state is dropped; startWebcam calls in flight
\* go on without it.
UnmountCam(w, p) ==
  LET w1 == IF p.error THEN w ELSE FoUnmount(w)
      w2 == LifecycleCleanup(w1, p.stream, FALSE)
      w3 == CountdownCleanup(w2)
  IN  [w3 EXCEPT !.tasks = {[t EXCEPT !.orphan = TRUE] : t \in @},
                 !.countdown = countdownDuration, !.error = FALSE, !.stream = 0,
                 !.isVideoLoaded = FALSE, !.filteredCanvas = NoCanvas,
                 !.video = NoVideo, !.r = Unmounted, !.last.failed = FALSE]

\* WebcamCapture re-renders from p to c.  app: App rendered too, so
\* onPhotoCaptured is a new function; snd: useSound returned new functions.
UpdateCam(w, p, c, app, snd) ==
  LET foDeps == c.filter # p.filter \/ c.videoElement # p.videoElement
      camDeps == c.stream # p.stream
      cdDeps == \/ app \/ snd
                \/ c.isCountdownActive # p.isCountdownActive
                \/ c.countdown # p.countdown
                \/ c.filteredCanvas # p.filteredCanvas
                \/ c.isVideoLoaded # p.isVideoLoaded
      w1 == IF ~p.error /\ c.error THEN FoUnmount(w)
            ELSE IF ~p.error /\ ~c.error /\ foDeps THEN FoCleanup(w)
            ELSE w
      w2 == IF camDeps THEN LifecycleCleanup(w1, p.stream, TRUE) ELSE w1
      w3 == IF cdDeps THEN CountdownCleanup(w2) ELSE w2
      w4 == IF p.error /\ ~c.error THEN FoEffect(FoMount(w3), TRUE)
            ELSE IF ~p.error /\ ~c.error /\ foDeps THEN FoEffect(w3, TRUE)
            ELSE w3
      w5 == IF camDeps THEN startWebcam(w4, c.stream) ELSE w4
  IN  IF cdDeps THEN CountdownEffect(w5, c) ELSE w5

RenderStep(w, snd) ==
  LET p == w.r
      mounting == ~p.mounted
      c == Snapshot(w, ~mounting)
      w0 == [Mark(w) EXCEPT !.dirty = "none", !.r = c]
  IN  IF ~p.mounted /\ ~c.mounted THEN [w0 EXCEPT !.r = Unmounted]
      ELSE IF ~p.mounted THEN MountCam(w0, c)
      ELSE IF ~c.mounted THEN UnmountCam(w0, p)
      ELSE UpdateCam(w0, p, c, w.dirty = "app", snd)

Render(snd) ==
  /\ dirty # "none"
  /\ LET w == RenderStep(World, snd)
     IN  /\ Len(w.chains) + Len(w.inits) <= MaxLoops
         /\ Install(w)

----------------------------------------------------------------------------
(* User actions (App.tsx and the Retry button).                            *)

\* startPhotoSession: setPhotos([]) always sets a new array.
StartPhotoSession ==
  /\ dirty = "none"
  /\ Install(SetApp(SetApp(Mark(World), "photos", << >>),
                    "isCapturing", TRUE))

\* A filter button, shown in the capture view.
SelectFilter(f) ==
  /\ dirty = "none"
  /\ r.mounted
  /\ f # selectedFilter
  /\ Len(chains) + Len(inits) < MaxLoops
  /\ Install(SetApp(Mark(World), "selectedFilter", f))

\* RetryButton onClick={startWebcam}, shown while error is set.
RetryClick ==
  /\ dirty = "none"
  /\ r.mounted /\ r.error
  /\ Install(startWebcam(Mark(World), r.stream))

----------------------------------------------------------------------------
(* Timers.                                                                 *)

\* A sleep(1000) of runCountdown ends, of an effect instance whose flag is
\* isMounted.  At most one pending sleep has isMounted true; of those with
\* isMounted false the model keeps only whether there is one, so more says
\* whether another is still pending.
SleepDone(isMounted, more) ==
  /\ dirty = "none"
  /\ isMounted \in timers
  /\ isMounted => ~more
  /\ Install(AfterSleep([Mark(World) EXCEPT
                           !.timers = IF more THEN @ ELSE @ \ {isMounted},
                           !.last.sleep = IF isMounted THEN "live" ELSE "stale"],
                        isMounted))

----------------------------------------------------------------------------
(* startWebcam after its awaits.  A task t is a call in flight; t.orphan   *)
(* says that the WebcamCapture instance that made it has unmounted, so     *)
(* that its videoRef.current is null and its setters do nothing.           *)

Advance(w, t, pc, ms) ==
  [w EXCEPT !.tasks = (@ \ {t}) \cup {Task(pc, t.cstream, ms, t.orphan)}]

Finish(w, t, ms) ==
  [w EXCEPT !.tasks = @ \ {t},
            !.last.orphaned = IF t.orphan THEN ms ELSE -1]

\* await getUserMedia resolved with a new stream ms.  hasTrack: the stream
\* has a video track (the alt build checks); without one it has no track
\* that runs.
AfterGetUserMedia(w, t, ms, hasTrack) ==
  LET w1 == [w EXCEPT !.live = IF hasTrack THEN @ \cup {ms} ELSE @,
                      !.nextStream = ms + 1]
  IN  IF w.build = "src"
      THEN IF ~t.orphan
           THEN Advance(SetSrcObject(w1, ms), t, "play", ms)
           ELSE Finish(w1, t, ms)
      ELSE IF ~hasTrack \/ t.orphan
           THEN Catch(Finish(w1, t, ms), [t EXCEPT !.ms = ms])
           ELSE Advance(SetSrcObject(w1, ms), t, "meta", ms)

\* await video.play() resolved.
AfterPlay(w, t) ==
  LET alive == ~t.orphan
      w1 == SetCamIf([Finish(w, t, t.ms) EXCEPT !.last.failed = @ /\ ~alive],
                     alive, "stream", t.ms)
  IN  IF w.build = "src" THEN w1
      ELSE SetCamIf(w1, alive, "isVideoLoaded", TRUE)

GumResolve(t, hasTrack) ==
  /\ dirty = "none"
  /\ t \in tasks /\ t.pc = "gum"
  /\ nextStream <= MaxStreams
  /\ build = "src" => hasTrack
  /\ Install(AfterGetUserMedia(Mark(World), t, nextStream, hasTrack))

\* The MediaStream ids of a session that goes on for ever: one more than
\* the ids handed out first, so that a new stream differs from the one held.
StreamIds == 1..(MaxStreams + 1)

\* The ids something still refers to.
InUse ==
  live \cup {stream, r.stream, video.srcObject}
       \cup {t.ms : t \in tasks} \cup {t.cstream : t \in tasks}

\* getUserMedia resolves after the first MaxStreams streams: the new stream
\* takes an id that nothing refers to any more.
GumResolveAgain(t) ==
  /\ dirty = "none"
  /\ t \in tasks /\ t.pc = "gum"
  /\ nextStream > MaxStreams
  /\ \E ms \in StreamIds \ InUse :
       Install([AfterGetUserMedia(Mark(World), t, ms, TRUE)
                  EXCEPT !.nextStream = nextStream])

\* getUserMedia rejects (permission denied, no device).
GumReject(t) ==
  /\ dirty = "none"
  /\ t \in tasks /\ t.pc = "gum"
  /\ Install(Catch(Finish(Mark(World), t, t.ms), t))

\* The 500 ms stabilisation delay after canplay ends; video.play() is called.
StabDone(t) ==
  /\ dirty = "none"
  /\ t \in tasks /\ t.pc = "stab"
  /\ Install(Advance(Mark(World), t, "play", t.ms))

\* play() resolves once the element, still showing the task's stream, can play.
PlayResolve(t) ==
  /\ dirty = "none"
  /\ t \in tasks /\ t.pc = "play" /\ ~t.orphan
  /\ video.srcObject = t.ms /\ video.ready = 3 /\ t.ms \in live
  /\ Install(AfterPlay(Mark(World), t))

\* play() rejects (autoplay policy, or the load was aborted).
PlayReject(t) ==
  /\ dirty = "none"
  /\ t \in tasks /\ t.pc = "play"
  /\ Install(Catch(Finish(Mark(World), t, t.ms), t))

----------------------------------------------------------------------------
(* Events of the mounted <video> element, in the order the platform fires  *)
(* them for a source: loadedmetadata, loadeddata, canplay.                 *)

VideoActive == r.mounted /\ video.srcObject # 0 /\ video.srcObject \in live

\* Every initPixiApp waiting for loadedmetadata goes on, oldest first.
RECURSIVE ResumeInits(_, _)
ResumeInits(w, is) ==
  IF is = << >> THEN w ELSE ResumeInits(InitContinue(w, Head(is)), Tail(is))

\* loadedmetadata: videoWidth is known.  The listeners: startWebcam's wait
\* (alt build) and initPixiApp's wait (src build).
LoadedMetadata ==
  /\ dirty = "none"
  /\ VideoActive /\ video.ready = 0
  /\ LET w == [Mark(World) EXCEPT !.video.ready = 1]
         w1 == [w EXCEPT !.tasks = {IF t.pc = "meta" /\ ~t.orphan
                                    THEN [t EXCEPT !.pc = "canplay"] ELSE t : t \in @}]
     IN  Install(ResumeInits([w1 EXCEPT !.inits = << >>], w.inits))

\* loadeddata: onLoadedData={handleVideoLoad}.
LoadedData ==
  /\ dirty = "none"
  /\ VideoActive /\ video.ready = 1
  /\ Install(SetCam([Mark(World) EXCEPT !.video.ready = 2],
                    "isVideoLoaded", TRUE))

\* canplay: the alt build's second wait starts its stabilisation delay.
CanPlay ==
  /\ dirty = "none"
  /\ VideoActive /\ video.ready = 2
  /\ LET w == [Mark(World) EXCEPT !.video.ready = 3]
     IN  Install([w EXCEPT !.tasks = {IF t.pc = "canplay" /\ ~t.orphan
                                     THEN [t EXCEPT !.pc = "stab"] ELSE t : t \in @}])

\* error on the element while the alt build's startWebcam waits: it rejects.
VideoError(t) ==
  /\ dirty = "none"
  /\ build = "alt"
  /\ r.mounted /\ video.srcObject # 0
  /\ t \in tasks /\ t.pc \in {"meta", "canplay"} /\ ~t.orphan
  /\ Install(Catch(Finish(Mark(World), t, t.ms), t))

----------------------------------------------------------------------------
(* Animation frames.                                                       *)

\* onFilteredFrame(surface) = setFilteredCanvas(surface) of the mounted
\* WebcamCapture, by a chain whose torn flag is given.
Publish(w, torn) ==
  SetCamIf([w EXCEPT !.last.publish = IF torn THEN "torn" ELSE "loop"],
           w.r.mounted, "filteredCanvas", "current")

\* frameIdRef.current = requestAnimationFrame(...) by chain i.
Reschedule(w, i) ==
  IF w.chains[i].own THEN [w EXCEPT !.fo.frameRef = i] ELSE w

\* The chain ends without rescheduling; the id the frame ref may still hold
\* names no scheduled callback.
EndChain(w, i) ==
  [w EXCEPT !.chains = RemoveAt(@, i),
            !.fo.frameRef = IF @ = i THEN 0 ELSE IF @ > i THEN @ - 1 ELSE @]

\* updateFrame (src) of chain i.  On a destroyed Application, app.view either
\* throws or is no canvas, depending on the PixiJS release: how = "throw"
\* or "skip".
updateFrame(w, i, how) ==
  IF w.chains[i].alive THEN Reschedule(Publish(w, w.chains[i].torn), i)
  ELSE IF how = "throw" THEN EndChain(w, i)
  ELSE Reschedule(w, i)

\* updateCanvas (alt) of chain i; how = "skip" when less than 42 ms passed
\* since the last drawn frame.
updateCanvas(w, i, how) ==
  IF how = "skip" THEN Reschedule(w, i)
  ELSE Reschedule(Publish(w, w.chains[i].torn), i)

FrameStep(i, how) ==
  /\ dirty = "none"
  /\ i \in DOMAIN chains
  /\ \/ build = "src" /\ chains[i].alive /\ how = "run"
     \/ build = "src" /\ ~chains[i].alive /\ how \in {"throw", "skip"}
     \/ build = "alt" /\ how \in {"run", "skip"}
  /\ Install(IF build = "src"
             THEN updateFrame(Mark(World), i, how)
             ELSE updateCanvas(Mark(World), i, how))

----------------------------------------------------------------------------
(* The pixels of a capture.  One row of a frame stands for the frame: every *)
(* draw below treats all rows alike.  A pixel records its alpha, its value   *)
(* and what tinted it.                                                      *)

panels == 4

Columns == 1..MaxWidth

Colours == {0, 1}

Clear == [alpha |-> "clear", val |-> 0, tint |-> "none"]

White == [alpha |-> "opaque", val |-> 1, tint |-> "none"]

Sparkle == [alpha |-> "semi", val |-> 1, tint |-> "sparkle"]

NoPicture == [stage |-> "none", frame |-> << >>, surface |-> << >>, out |-> << >>]

\* The current frame of the <video> element as an image source.
VideoImage(frame) ==
  [x \in Columns |-> [alpha |-> "opaque", val |-> frame[x], tint |-> "none"]]

\* Source-over compositing of one pixel.
Over(top, bottom) ==
  IF top.alpha = "opaque" THEN top
  ELSE IF top.alpha = "clear" THEN bottom
  ELSE [bottom EXCEPT !.tint = top.tint]

\* The canvas column that source column x lands on under the transform
\* x -> tx + sx * x: the pixel spans x - 1 .. x.
DestColumn(x, tx, sx) ==
  LET a == tx + sx * (x - 1)
      b == tx + sx * x
  IN  IF a > b THEN a ELSE b

\* ctx.drawImage(img, 0, 0) under the current transform.
drawImage(canvas, img, tx, sx) ==
  [d \in Columns |->
     IF \E x \in Columns : DestColumn(x, tx, sx) = d
     THEN Over(img[CHOOSE x \in Columns : DestColumn(x, tx, sx) = d], canvas[d])
     ELSE canvas[d]]

\* What the PixiJS loop renders: the sprite of the video texture over a
\* transparent background; createFilter gives no filter for the App's filters.
PixiSurface(frame) == drawImage([x \in Columns |-> Clear], VideoImage(frame), 0, 1)

\* What updateCanvas draws: a cleared canvas, with sparkles at random places
\* for the sparkle filter.
CanvasSurface(filter, sparkles) ==
  [x \in Columns |-> IF filter = "sparkle" /\ x \in sparkles THEN Sparkle ELSE Clear]

\* One panel of capturePhoto: the mirrored video frame, then the surface.
Panel(background, frame, surface) ==
  LET mirrored == drawImage(background, VideoImage(frame), MaxWidth, -1)
  IN  drawImage(mirrored, surface, 0, 1)

\* The canvas capturePhoto turns into the photo.
PhotoCanvas(b, frame, surface) ==
  IF b = "src"
  THEN <<Panel([x \in Columns |-> Clear], frame, surface)>>
  ELSE [i \in 1..panels |-> Panel([x \in Columns |-> White], frame, surface)]

\* The render loop draws the surface from the current frame.
DrawSurface(sparkles) ==
  /\ px.stage = "frame"
  /\ build = "src" => sparkles = {}
  /\ px' = [px EXCEPT !.stage = "drawn",
                      !.surface = IF build = "src" THEN PixiSurface(px.frame)
                                  ELSE CanvasSurface(selectedFilter, sparkles)]
  /\ UNCHANGED <<build, photos, isCapturing, selectedFilter, countdown, error,
                 stream, isVideoLoaded, filteredCanvas, dirty, r, timers, video,
                 live, nextStream, tasks, fo, inits, chains, last,
                 loop, stickers, image, shot>>

\* The browser presents the WebGL canvas of the PixiJS Application, created
\* without preserveDrawingBuffer: its drawing buffer reads as cleared.
PresentSurface ==
  /\ px.stage = "drawn" /\ build = "src"
  /\ px' = [px EXCEPT !.stage = "presented",
                      !.surface = [x \in Columns |-> Clear]]
  /\ UNCHANGED <<build, photos, isCapturing, selectedFilter, countdown, error,
                 stream, isVideoLoaded, filteredCanvas, dirty, r, timers, video,
                 live, nextStream, tasks, fo, inits, chains, last,
                 loop, stickers, image, shot>>

\* capturePhoto draws the photo.
CapturePixels ==
  /\ px.stage \in {"drawn", "presented"}
  /\ px' = [px EXCEPT !.stage = "captured",
                      !.out = PhotoCanvas(build, px.frame, px.surface)]
  /\ UNCHANGED <<build, photos, isCapturing, selectedFilter, countdown, error,
                 stream, isVideoLoaded, filteredCanvas, dirty, r, timers, video,
                 live, nextStream, tasks, fo, inits, chains, last,
                 loop, stickers, image, shot>>

----------------------------------------------------------------------------
(* One render loop against the clock.  requestAnimationFrame hands each    *)
(* callback the timestamp of its frame; the <video> element reports the     *)
(* native size of the stream, which a camera may change while it runs.      *)

throttleMs == 42

MaxTicks == 4

\* Milliseconds between two frames of the display, and the time of the
\* frame in which the effect runs.
Deltas == {16, 41, 42, 60}

StartTimes == {16, 1000}

\* Sizes are <<width, height>>; a canvas element starts at 300 x 150.
Sizes == {<<4, 3>>, <<3, 4>>}

DefaultCanvas == <<300, 150>>

\* step says what the last callback did; prevTick, lastRun and prevRun are
\* history: the time of the callback before the last one, of the last
\* executed step and of the executed step before that (-1 when there is none).
NoLoop ==
  [started |-> FALSE, ticks |-> 0, now |-> 0, lastDrawTime |-> 0,
   prevTick |-> -1, lastRun |-> -1, prevRun |-> -1, step |-> "none",
   videoSize |-> <<0, 0>>, canvasSize |-> <<0, 0>>, before |-> <<0, 0>>,
   resized |-> FALSE]

\* The canvas the loop publishes, as the effect leaves it: the view of the
\* PIXI.Application created with the video's size of that moment (src), the
\* canvas element of the component (alt).
LoopCanvas(b, videoSize) == IF b = "src" THEN videoSize ELSE DefaultCanvas

\* updateCanvas (alt) with its clock and its canvas.
updateCanvasAt(l, timestamp) ==
  IF timestamp - l.lastDrawTime < throttleMs
  THEN [l EXCEPT !.step = "skipped"]
  ELSE LET differs == l.canvasSize # l.videoSize
       IN  [l EXCEPT !.canvasSize = IF differs THEN l.videoSize ELSE @,
                     !.resized = differs,
                     !.step = "executed",
                     !.lastDrawTime = timestamp]

\* updateFrame (src): app.view is a canvas element, so every callback renders
\* and publishes; nothing reads the timestamp or the size of the video.
updateFrameAt(l, timestamp) == [l EXCEPT !.step = "executed"]

\* The history of a callback that ran at timestamp and left l.
Timed(before, l, timestamp) ==
  [l EXCEPT !.ticks = @ + 1,
            !.now = timestamp,
            !.prevTick = IF before.ticks = 0 THEN -1 ELSE before.now,
            !.before = before.canvasSize,
            !.lastRun = IF l.step = "executed" THEN timestamp ELSE @,
            !.prevRun = IF l.step = "executed" THEN before.lastRun ELSE @]

\* The effect of FilterOverlay runs and requests the first frame.
StartLoop(size, t) ==
  /\ ~loop.started
  /\ loop' = [loop EXCEPT !.started = TRUE, !.now = t, !.videoSize = size,
                          !.canvasSize = LoopCanvas(build, size)]
  /\ UNCHANGED <<boothVars, px, stickers, image, shot>>

\* The display delivers the next frame, dt ms after the last one.
Tick(dt) ==
  /\ loop.started
  /\ loop.ticks < MaxTicks
  /\ LET timestamp == loop.now + dt
         fresh == [loop EXCEPT !.resized = FALSE]
     IN  loop' = Timed(loop,
                       IF build = "src" THEN updateFrameAt(fresh, timestamp)
                       ELSE updateCanvasAt(fresh, timestamp),
                       timestamp)
  /\ UNCHANGED <<boothVars, px, stickers, image, shot>>

\* The camera changes the native size of its frames.
VideoResize(size) ==
  /\ loop.started
  /\ size # loop.videoSize
  /\ loop' = [loop EXCEPT !.videoSize = size, !.step = "none"]
  /\ UNCHANGED <<boothVars, px, stickers, image, shot>>

----------------------------------------------------------------------------
(* StickersOverlay: the marks placed on the photo strip.                   *)

MaxMarks == 3

\* Some of the stickers of the panel, and the values a pointer event and
\* Math.random() give a mark (scale in tenths, rotation in degrees).
StickerNames == {"heart", "star"}

Coordinates == {10, 20}

Scales == {10}

Rotations == {-45, 45}

\* op and before are history: the last handler that ran and the marks it found.
NoStickers ==
  [selectedSticker |-> "", stickerPositions |-> << >>,
   op |-> "none", before |-> << >>]

\* A faulty handleUndo: it removes the oldest mark.
handleUndoOldest(prev) ==
  IF prev = << >> THEN << >> ELSE SubSeq(prev, 2, Len(prev))

\* The updater of handleUndo: a copy of prev without its last element; pop()
\* of an empty array removes nothing.
handleUndo(prev) ==
  IF prev = << >> THEN << >> ELSE SubSeq(prev, 1, Len(prev) - 1)

\* The updater of handlePointerDown; it is not reached without a selected
\* sticker.
handlePointerDown(st, x, y, scale, rotation) ==
  IF st.selectedSticker = "" THEN st.stickerPositions
  ELSE Append(st.stickerPositions,
              [x |-> x, y |-> y, sticker |-> st.selectedSticker,
               scale |-> scale, rotation |-> rotation])

\* A sticker button is clicked.
SelectSticker(sticker) ==
  /\ stickers' = [stickers EXCEPT !.selectedSticker = sticker,
                                  !.op = "select",
                                  !.before = stickers.stickerPositions]
  /\ UNCHANGED <<boothVars, px, loop, image, shot>>

\* The canvas is pressed or touched.
PointerDown(x, y, scale, rotation) ==
  /\ Len(stickers.stickerPositions) < MaxMarks
  /\ stickers' = [stickers EXCEPT
                    !.stickerPositions =
                       handlePointerDown(stickers, x, y, scale, rotation),
                    !.op = "press",
                    !.before = stickers.stickerPositions]
  /\ UNCHANGED <<boothVars, px, loop, image, shot>>

\* The Undo button, rendered while there are marks, is clicked.
Undo ==
  /\ Len(stickers.stickerPositions) > 0
  /\ stickers' = [stickers EXCEPT
                    !.stickerPositions = handleUndo(stickers.stickerPositions),
                    !.op = "undo",
                    !.before = stickers.stickerPositions]
  /\ UNCHANGED <<boothVars, px, loop, image, shot>>

----------------------------------------------------------------------------
(* The filter engines on one pixel: createFilter with the PixiJS sprite    *)
(* ("pixi"), the switch of ImageFilter ("image") and the drawing of         *)
(* updateCanvas over the video ("canvas").  A pixel holds its channels and  *)
(* the operators that have been applied to it.                              *)

maxChannel == 255

Engines == {"pixi", "image", "canvas"}

\* The App's filters, the further cases of createFilter and an identifier
\* no switch knows.
FilterIds ==
  {"normal", "pastel", "smooth", "sparkle", "sepia", "vintage", "noir",
   "vivid", "dreamy", "blur", "pixelate", "unknown"}

Pixel(red, green, blue, alpha) ==
  [r |-> red, g |-> green, b |-> blue, a |-> alpha, ops |-> << >>]

NoImage ==
  [stage |-> "none", engine |-> "pixi", filter |-> "normal",
   pixel |-> Pixel(0, 0, 0, 0), out |-> Pixel(0, 0, 0, 0), thrown |-> FALSE]

\* A faulty createFilter: the default case blurs.
createFilterBlurs(type) ==
  IF type \in {"sepia", "vintage", "noir", "vivid", "dreamy", "blur", "pixelate"}
  THEN <<type>>
  ELSE <<"BlurFilter">>

\* createFilter: the PIXI filters of a filter identifier.
createFilter(type) ==
  CASE type = "sepia" -> <<"ColorMatrixFilter">>
    [] type = "vintage" -> <<"ColorMatrixFilter", "AdjustmentFilter">>
    [] type = "noir" -> <<"ColorMatrixFilter", "AdjustmentFilter">>
    [] type = "vivid" -> <<"AdjustmentFilter">>
    [] type = "dreamy" -> <<"ColorMatrixFilter", "BlurFilter", "AdjustmentFilter">>
    [] type = "blur" -> <<"BlurFilter">>
    [] type = "pixelate" -> <<"PixelateFilter">>
    [] OTHER -> << >>

\* app.render(): the sprite of the video texture through videoSprite.filters.
PixiRender(pixel, filters) == [pixel EXCEPT !.ops = filters]

\* A value stored into a Uint8ClampedArray, given in tenths: rounded to the
\* nearest integer, halves to even, and clamped.
ToUint8Clamped(tenths) ==
  LET whole == tenths \div 10
      rest == tenths % 10
      rounded == IF rest > 5 \/ (rest = 5 /\ whole % 2 = 1) THEN whole + 1
                 ELSE whole
  IN  IF rounded < 0 THEN 0
      ELSE IF rounded > maxChannel THEN maxChannel
      ELSE rounded

\* The switch of img.onload on the pixel drawn by ctx.drawImage(img, 0, 0).
\* case 'pastel': the declaration of pixelData is part of the comment of
\* line 39, so line 40 reads an undeclared name and throws a ReferenceError:
\* the loop and putImageData are not reached.  hit: a sparkle covers the pixel.
applyFilter(filter, pixel, hit) ==
  CASE filter = "pastel" -> [out |-> pixel, thrown |-> TRUE]
    [] filter = "smooth" ->
         [out |-> [pixel EXCEPT !.ops = <<"blur", "brightness">>],
          thrown |-> FALSE]
    [] filter = "sparkle" ->
         [out |-> IF hit
                  THEN [Pixel(maxChannel, maxChannel, maxChannel, maxChannel)
                          EXCEPT !.ops = <<"sparkle">>]
                  ELSE pixel,
          thrown |-> FALSE]
    [] OTHER -> [out |-> pixel, thrown |-> FALSE]

\* fillStyle rgba(255, 255, 255, 0.4) over a channel.
SparkleOver(v) == ToUint8Clamped(4 * maxChannel + 6 * v)

\* What updateCanvas adds to the pixel of the video under its canvas.
canvasFilter(filter, pixel, hit) ==
  IF filter = "sparkle" /\ hit
  THEN [pixel EXCEPT !.r = SparkleOver(@), !.g = SparkleOver(@),
                     !.b = SparkleOver(@), !.ops = <<"sparkle">>]
  ELSE pixel

\* One engine processes the pixel.
PixiApply ==
  /\ image.stage = "input" /\ image.engine = "pixi"
  /\ image' = [image EXCEPT
                 !.stage = "output",
                 !.out = PixiRender(image.pixel, createFilter(image.filter))]
  /\ UNCHANGED <<boothVars, px, loop, stickers, shot>>

ImageApply(hit) ==
  /\ image.stage = "input" /\ image.engine = "image"
  /\ LET res == applyFilter(image.filter, image.pixel, hit)
     IN  image' = [image EXCEPT !.stage = "output", !.out = res.out,
                                !.thrown = res.thrown]
  /\ UNCHANGED <<boothVars, px, loop, stickers, shot>>

CanvasApply(hit) ==
  /\ image.stage = "input" /\ image.engine = "canvas"
  /\ image' = [image EXCEPT
                 !.stage = "output",
                 !.out = canvasFilter(image.filter, image.pixel, hit)]
  /\ UNCHANGED <<boothVars, px, loop, stickers, shot>>

----------------------------------------------------------------------------
(* The filter of a Photo and the filter of the surface drawn into it.  A    *)
(* view is an output surface (src: the view of a PIXI.Application, alt: the *)
(* canvas of FilterOverlay); views[i] is the filter under which view i was  *)
(* last rendered, "blank" before its first render.  The video has loaded    *)
(* and FilterOverlay is mounted with its effect run.                        *)

MaxViews == 3

NoShot ==
  [selectedFilter |-> "normal", \* App: selectedFilter, as last committed
   filter |-> "none",           \* the filter the scheduled loop closed over
   view |-> 0,                  \* pixiAppRef.current.view / canvasRef.current
   views |-> << >>,
   filteredCanvas |-> 0,        \* WebcamCapture: filteredCanvas (0 is null)
   photos |-> << >>]

\* The cleanup of the FilterOverlay effect: the frame is cancelled; the src
\* build destroys the Application, the alt build keeps its canvas.
overlayCleanup(s) ==
  [s EXCEPT !.filter = "none",
            !.view = IF build = "src" THEN 0 ELSE @]

\* The FilterOverlay effect with the prop filter: the src build creates an
\* Application when there is none; both request the first frame.
overlayEffect(s, filter) ==
  IF s.view = 0
  THEN [s EXCEPT !.views = Append(@, "blank"), !.view = Len(s.views) + 1,
                 !.filter = filter]
  ELSE [s EXCEPT !.filter = filter]

\* A filter button's onClick (setSelectedFilter) and the render it causes:
\* the effect of FilterOverlay depends on filter, so its cleanup and its body
\* run.
ChangeFilter(f) ==
  /\ shot.filter # "none"
  /\ f # shot.selectedFilter
  /\ Len(shot.views) < MaxViews
  /\ shot' = overlayEffect(overlayCleanup([shot EXCEPT !.selectedFilter = f]), f)
  /\ UNCHANGED <<boothVars, px, loop, stickers, image>>

\* An animation frame of the scheduled loop that draws: the view is rendered
\* under the loop's filter and handed to onFilteredFrame.
DrawFrame ==
  /\ shot.filter # "none"
  /\ shot' = [shot EXCEPT !.views[shot.view] = shot.filter,
                          !.filteredCanvas = shot.view]
  /\ UNCHANGED <<boothVars, px, loop, stickers, image>>

\* capturePhoto and handlePhotoCaptured at countdown = 0: the surface held in
\* filteredCanvas is drawn into the Photo, which carries selectedFilter.
takePhoto(s) ==
  IF s.filteredCanvas = 0 THEN s
  ELSE [s EXCEPT !.photos = Append(@, [filter |-> s.selectedFilter,
                                       rendered |-> s.views[s.filteredCanvas]])]

\* The countdown reaches 0 (the timers of a page run whether or not its
\* animation frames do).
CaptureAtZero ==
  /\ shot.filter # "none"
  /\ Len(shot.photos) < photosNeeded
  /\ shot' = takePhoto(shot)
  /\ UNCHANGED <<boothVars, px, loop, stickers, image>>

----------------------------------------------------------------------------
(* The page has loaded and the first render is pending.                    *)

Init ==
  /\ build \in Builds
  /\ photos = << >>
  /\ isCapturing = FALSE
  /\ selectedFilter = "normal"
  /\ countdown = countdownDuration
  /\ error = FALSE
  /\ stream = 0
  /\ isVideoLoaded = FALSE
  /\ filteredCanvas = NoCanvas
  /\ dirty = "app"
  /\ r = Unmounted
  /\ timers = {}
  /\ video = NoVideo
  /\ live = {}
  /\ nextStream = 1
  /\ tasks = {}
  /\ fo = NoOverlay
  /\ inits = << >>
  /\ chains = << >>
  /\ last = NoEvent
  /\ px = NoPicture
  /\ loop = NoLoop
  /\ stickers = NoStickers
  /\ image = NoImage
  /\ shot = NoShot

Next ==
  \/ \E snd \in BOOLEAN : Render(snd)
  \/ StartPhotoSession
  \/ \E f \in Filters : SelectFilter(f)
  \/ RetryClick
  \/ \E b \in BOOLEAN, more \in BOOLEAN : SleepDone(b, more)
  \/ \E t \in tasks, hasTrack \in BOOLEAN : GumResolve(t, hasTrack)
  \/ \E t \in tasks : GumReject(t)
  \/ \E t \in tasks : StabDone(t)
  \/ \E t \in tasks : PlayResolve(t)
  \/ \E t \in tasks : PlayReject(t)
  \/ LoadedMetadata
  \/ LoadedData
  \/ CanPlay
  \/ \E t \in tasks : VideoError(t)
  \/ \E i \in 1..MaxLoops, how \in {"run", "skip", "throw"} : FrameStep(i, how)

Spec == Init /\ [][Next]_vars

\* The booth before its first render, for any build and filter: the state
\* the specifications of the parts keep it in.
BoothAtRest ==
  /\ build \in Builds
  /\ photos = << >>
  /\ isCapturing = FALSE
  /\ selectedFilter \in Filters
  /\ countdown = countdownDuration
  /\ error = FALSE
  /\ stream = 0
  /\ isVideoLoaded = FALSE
  /\ filteredCanvas = NoCanvas
  /\ dirty = "app"
  /\ r = Unmounted
  /\ timers = {}
  /\ video = NoVideo
  /\ live = {}
  /\ nextStream = 1
  /\ tasks = {}
  /\ fo = NoOverlay
  /\ inits = << >>
  /\ chains = << >>
  /\ last = NoEvent

\* The drawing of one photo, for every frame row, build and filter.
InitComposite ==
  /\ build \in Builds
  /\ photos = << >>
  /\ isCapturing = FALSE
  /\ selectedFilter \in Filters
  /\ countdown = countdownDuration
  /\ error = FALSE
  /\ stream = 0
  /\ isVideoLoaded = FALSE
  /\ filteredCanvas = NoCanvas
  /\ dirty = "app"
  /\ r = Unmounted
  /\ timers = {}
  /\ video = NoVideo
  /\ live = {}
  /\ nextStream = 1
  /\ tasks = {}
  /\ fo = NoOverlay
  /\ inits = << >>
  /\ chains = << >>
  /\ last = NoEvent
  /\ \E frame \in [Columns -> Colours] :
       px = [stage |-> "frame", frame |-> frame, surface |-> << >>, out |-> << >>]
  /\ loop = NoLoop
  /\ stickers = NoStickers
  /\ image = NoImage
  /\ shot = NoShot

NextComposite ==
  \/ \E sparkles \in SUBSET Columns : DrawSurface(sparkles)
  \/ PresentSurface
  \/ CapturePixels

SpecComposite == InitComposite /\ [][NextComposite]_vars

\* One render loop against the clock, for every build and filter.
InitLoop ==
  /\ BoothAtRest
  /\ px = NoPicture
  /\ loop = NoLoop
  /\ stickers = NoStickers
  /\ image = NoImage
  /\ shot = NoShot

NextLoop ==
  \/ \E size \in Sizes, t \in StartTimes : StartLoop(size, t)
  \/ \E dt \in Deltas : Tick(dt)
  \/ \E size \in Sizes : VideoResize(size)

SpecLoop == InitLoop /\ [][NextLoop]_vars

\* StickersOverlay alone.
InitStickers ==
  /\ BoothAtRest
  /\ build = "src" /\ selectedFilter = "normal"
  /\ px = NoPicture
  /\ loop = NoLoop
  /\ stickers = NoStickers
  /\ image = NoImage
  /\ shot = NoShot

NextStickers ==
  \/ \E sticker \in StickerNames : SelectSticker(sticker)
  \/ \E x \in Coordinates, y \in Coordinates, scale \in Scales,
        rotation \in Rotations : PointerDown(x, y, scale, rotation)
  \/ Undo

SpecStickers == InitStickers /\ [][NextStickers]_vars

\* The filter engines, for every filter identifier and channel value.
InitFilter ==
  /\ BoothAtRest
  /\ build = "src" /\ selectedFilter = "normal"
  /\ px = NoPicture
  /\ loop = NoLoop
  /\ stickers = NoStickers
  /\ shot = NoShot
  /\ \E e \in Engines, f \in FilterIds, v \in 0..maxChannel,
        alpha \in {0, maxChannel} :
       image = [NoImage EXCEPT !.stage = "input", !.engine = e, !.filter = f,
                               !.pixel = Pixel(v, maxChannel - v, v, alpha)]

NextFilter ==
  \/ PixiApply
  \/ \E hit \in BOOLEAN : ImageApply(hit)
  \/ \E hit \in BOOLEAN : CanvasApply(hit)

SpecFilter == InitFilter /\ [][NextFilter]_vars

\* Filter changes, animation frames and captures, for either build and
\* every filter selected when FilterOverlay mounted.
InitShot ==
  /\ BoothAtRest
  /\ selectedFilter = "normal"
  /\ px = NoPicture
  /\ loop = NoLoop
  /\ stickers = NoStickers
  /\ image = NoImage
  /\ \E f \in Filters :
       shot = overlayEffect([NoShot EXCEPT !.selectedFilter = f], f)

NextShot ==
  \/ \E f \in Filters : ChangeFilter(f)
  \/ DrawFrame
  \/ CaptureAtZero

SpecShot == InitShot /\ [][NextShot]_vars

\* A session without camera failure and without user action other than one
\* click on Start Photo Session: every await of the code completes, every
\* animation frame and every pending render comes.
NextSession ==
  \/ \E snd \in BOOLEAN : Render(snd)
  \/ (~isCapturing /\ StartPhotoSession)
  \/ \E b \in BOOLEAN, more \in BOOLEAN : SleepDone(b, more)
  \/ \E t \in tasks : GumResolve(t, TRUE)
  \/ \E t \in tasks : GumResolveAgain(t)
  \/ \E t \in tasks : StabDone(t)
  \/ \E t \in tasks : PlayResolve(t)
  \/ LoadedMetadata
  \/ LoadedData
  \/ CanPlay
  \/ \E i \in 1..MaxLoops : FrameStep(i, "run")

FairSession ==
  /\ WF_vars(\E snd \in BOOLEAN : Render(snd))
  /\ WF_vars(~isCapturing /\ StartPhotoSession)
  /\ SF_vars(\E more \in BOOLEAN : SleepDone(TRUE, more))
  /\ WF_vars(\E t \in tasks : GumResolve(t, TRUE))
  /\ WF_vars(\E t \in tasks : GumResolveAgain(t))
  /\ WF_vars(\E t \in tasks : StabDone(t))
  /\ WF_vars(\E t \in tasks : PlayResolve(t))
  /\ WF_vars(LoadedMetadata)
  /\ WF_vars(LoadedData)
  /\ WF_vars(CanPlay)

SpecSession == Init /\ [][NextSession]_vars /\ FairSession

----------------------------------------------------------------------------
(* Properties of the countdown and of capture.                             *)

\* The render about to be committed sees countdown = 0: its countdown effect
\* calls capturePhoto.
ArrivesAtZero ==
  dirty # "none" /\ r.mounted /\ Len(photos) < photosNeeded /\ countdown = 0

\* The capture preconditions as the render about to be committed sees them.
Ready == isVideoLoaded /\ filteredCanvas # NoCanvas

\* The capture preconditions that the last committed render saw.
WasReady == r.isVideoLoaded /\ r.filteredCanvas # NoCanvas

\* C1: a countdown cycle is countdownDuration ticks, each a decrement by one
\* made by a sleep of the running effect instance; the render that arrives at
\* countdown = 0 with the capture preconditions satisfied calls
\* onPhotoCaptured exactly once and leaves 0, and no other step adds a photo.
C1_OneCapturePerCycle ==
  [][/\ (ArrivesAtZero /\ Ready) =>
          Len(photos') = Len(photos) + 1 /\ countdown' # 0
     /\ Len(photos') > Len(photos) =>
          ArrivesAtZero /\ Len(photos') = Len(photos) + 1
     /\ countdown' < countdown =>
          countdown' = countdown - 1 /\ last'.sleep = "live"
     /\ countdown' > countdown => countdown = 0]_vars

\* A capture has just been made at the end of a cycle.
C1_Witness ==
  /\ last.capture = "attempt" /\ WasReady
  /\ r.countdown = 0 /\ Len(photos) = r.photosLen + 1

\* C2: the step that captures re-arms countdown to countdownDuration with the
\* countdown still active; once rendered, a countdown is running (a sleep of
\* the current effect instance is pending) while fewer than photosNeeded photos
\* are taken, and with photosNeeded photos WebcamCapture is unmounted, no
\* sleep of a current effect instance is pending, and no tick or capture
\* happens until a new session is started.
C2_RearmOrIdle ==
  /\ [][Len(photos') > Len(photos) =>
          countdown' = countdownDuration /\ isCapturing']_vars
  /\ [](dirty = "none" /\ isCapturing /\ Len(photos) < photosNeeded =>
          /\ r.mounted
          /\ countdown \in 1..countdownDuration
          /\ TRUE \in timers)
  /\ [](dirty = "none" /\ Len(photos) = photosNeeded =>
          ~r.mounted /\ TRUE \notin timers)
  /\ [][Len(photos) = photosNeeded =>
          /\ countdown' = countdown
          /\ photos' = photos \/ photos' = << >>]_vars

\* After the last photo of a session the booth is idle.
C2_Witness ==
  dirty = "none" /\ Len(photos) = photosNeeded /\ ~r.mounted /\ timers # {}

\* C3: countdown, and the value of it that the committed render holds, stay
\* within 0..countdownDuration.
C3_CountdownInRange ==
  /\ countdown \in 0..countdownDuration
  /\ r.countdown \in 0..countdownDuration

\* The lower end is reached by a tick while sleeps of superseded effect
\* instances are pending.
C3_Witness == countdown = 0 /\ last.sleep = "live" /\ FALSE \in timers

\* C4: a call of capturePhoto made while isVideoLoaded is false or
\* filteredCanvas is null adds no photo.
C4_NoPhotoWhenNotReady ==
  [][last'.capture = "attempt" /\ ~Ready => photos' = photos]_vars

\* capturePhoto was called without the preconditions.
C4_Witness ==
  last.capture = "attempt" /\ ~WasReady /\ Len(photos) = r.photosLen

\* C5: a call of capturePhoto made at countdown = 0 without the preconditions
\* leaves countdown as it was.
C5_SkipKeepsCountdown ==
  last.capture = "attempt" /\ ~WasReady => countdown = r.countdown

\* C6: no requestAnimationFrame chain of an effect instance whose cleanup has
\* run has a callback scheduled, and none calls onFilteredFrame.
C6_NoCallbackAfterTeardown ==
  /\ \A i \in DOMAIN chains : ~chains[i].torn
  /\ last.publish # "torn"

\* C7: a startWebcam call that ends after its WebcamCapture has unmounted
\* leaves the stream it obtained stopped, and nothing attached to the video
\* element.
C7_NoResurrection ==
  /\ last.orphaned > 0 => last.orphaned \notin live
  /\ ~r.mounted => video.srcObject = 0

\* C8: a startWebcam call that ends in its catch has set error, if its
\* WebcamCapture is still mounted, and leaves the stream it obtained stopped.
C8_FailureStopsStream ==
  /\ last.caught >= 0 /\ last.orphaned = -1 => error
  /\ last.caught > 0 => last.caught \notin live

\* C9: a sleep that ends after its effect instance was cleaned up changes
\* nothing; only a sleep of the running instance decrements countdown; and
\* while WebcamCapture is unmounted no photo is added.
C9_CancelledSleepDoesNothing ==
  [][/\ last'.sleep = "stale" =>
          countdown' = countdown /\ photos' = photos /\ dirty' = dirty
     /\ countdown' < countdown => last'.sleep = "live"
     /\ ~r.mounted => Len(photos') <= Len(photos)]_vars

\* A sleep pending at the unmount has ended in the idle booth.
C9_Witness == last.sleep = "stale" /\ ~r.mounted /\ dirty = "none"

\* C10: in every panel of a drawn photo, for every frame, the pixel at column
\* x shows the value of column MaxWidth + 1 - x of the video frame (columns
\* counted from 1).
C10_PhotoIsMirrored ==
  px.stage = "captured" =>
    \A i \in DOMAIN px.out : \A x \in Columns :
      px.out[i][x].val = px.frame[MaxWidth + 1 - x]

----------------------------------------------------------------------------
(* Properties of the render loop against the clock.                        *)

\* C11: two executed render steps are never less than 42 ms apart in
\* requestAnimationFrame timestamps, and a callback that comes 42 ms or more
\* after the callback before it executes a render step.
C11_Throttled ==
  /\ (loop.step = "executed" /\ loop.prevRun >= 0)
       => loop.now - loop.prevRun >= throttleMs
  /\ (loop.step = "skipped" /\ loop.prevTick >= 0)
       => loop.now - loop.prevTick < throttleMs

\* C11 in the 2D-canvas build alone.
C11_ThrottledCanvas == build = "alt" => C11_Throttled

C11_CanvasWitness ==
  /\ build = "alt"
  /\ loop.step = "executed"
  /\ loop.prevRun >= 0
  /\ loop.prevTick > loop.prevRun

\* C17: after an executed render step the published surface has exactly the
\* native width and height the video has at that moment, and a step resizes
\* the surface only when the two differed.
C17_SurfaceMatchesVideo ==
  /\ loop.step = "executed" => loop.canvasSize = loop.videoSize
  /\ (loop.step = "executed" /\ loop.resized) => loop.before # loop.videoSize

\* C17 in the 2D-canvas build alone.
C17_SurfaceMatchesVideoCanvas == build = "alt" => C17_SurfaceMatchesVideo

C17_CanvasWitness ==
  /\ build = "alt"
  /\ loop.step = "executed"
  /\ loop.resized
  /\ loop.before \in Sizes

----------------------------------------------------------------------------
(* Properties of the session.                                              *)

\* C12: the number of accumulated photos is between 0 and photosNeeded; a
\* step in which capturePhoto emits a Photo (it is called with the capture
\* preconditions satisfied) appends exactly one entry and no other step adds
\* one; once a render is committed, WebcamCapture is mounted exactly when
\* fewer than photosNeeded photos are held and the review is shown exactly
\* when photosNeeded are held.
C12_SessionAggregates ==
  /\ [](/\ Len(photos) \in 0..photosNeeded
        /\ dirty = "none" => (r.mounted <=> Len(photos) < photosNeeded)
        /\ dirty = "none" => (~r.mounted <=> Len(photos) = photosNeeded))
  /\ [][/\ (last'.capture = "attempt" /\ Ready)
             => /\ Len(photos') = Len(photos) + 1
                /\ SubSeq(photos', 1, Len(photos)) = photos
        /\ Len(photos') > Len(photos) => (last'.capture = "attempt" /\ Ready)]_vars

C12_Witness ==
  /\ Len(photos) = photosNeeded
  /\ dirty = "none"
  /\ ~r.mounted

----------------------------------------------------------------------------
(* Properties of the error state.                                          *)

----------------------------------------------------------------------------
(* Properties of the stickers.                                             *)

\* C14: one undo of the marks M1..Mk leaves M1..Mk-1 in the same order, undo
\* of no marks leaves none, and no handler removes or reorders the marks that
\* were there: a press leaves them as a prefix, a selection leaves them as
\* they were.
C14_UndoRemovesLast ==
  LET now == stickers.stickerPositions
      k == Len(stickers.before)
  IN  /\ handleUndo(<< >>) = << >>
      /\ stickers.op = "undo"
           => /\ Len(now) = k - 1
              /\ \A i \in 1..(k - 1) : now[i] = stickers.before[i]
      /\ stickers.op = "press"
           => /\ Len(now) \in {k, k + 1}
              /\ \A i \in 1..k : now[i] = stickers.before[i]
      /\ stickers.op \in {"select", "none"} => now = stickers.before

C14_Witness ==
  /\ stickers.op = "undo"
  /\ Len(stickers.before) = MaxMarks
  /\ stickers.before[1] # stickers.before[MaxMarks]

----------------------------------------------------------------------------
(* Properties of the filter engines.                                       *)

\* The filter identifiers an engine has a case for.
HasCase(engine, filter) ==
  CASE engine = "pixi" ->
         filter \in {"sepia", "vintage", "noir", "vivid", "dreamy", "blur",
                     "pixelate"}
    [] engine = "image" -> filter \in {"pastel", "smooth", "sparkle"}
    [] OTHER -> filter = "sparkle"

\* C15: for a filter identifier without a case of its own ('normal' and
\* unknown identifiers among them) an engine applies no operator: the pixel
\* it leaves equals the pixel it was given.
C15_IdentityLaw ==
  (image.stage = "output" /\ ~HasCase(image.engine, image.filter))
    => /\ image.out = image.pixel
       /\ image.out.ops = << >>
       /\ ~image.thrown

C15_Witness ==
  /\ image.stage = "output"
  /\ image.filter = "normal"
  /\ image.engine = "pixi"
  /\ image.pixel.r = 200 /\ image.pixel.a = maxChannel

\* clamp(v * 0.8 + 51, 0, 255) in tenths.
PastelTenths(v) ==
  LET t == 8 * v + 510
  IN  IF t < 0 THEN 0 ELSE IF t > 10 * maxChannel THEN 10 * maxChannel ELSE t

\* The stored channel is the integer nearest to the blend.
Blended(stored, v) ==
  /\ stored \in 0..maxChannel
  /\ 10 * stored - PastelTenths(v) \in -5..5

\* C16: the pastel case of ImageFilter writes clamp(v * 0.8 + 51, 0, 255),
\* as the nearest integer, to the red, green and blue channel of a pixel
\* whose channel was v, for every v in 0..255, and leaves alpha as it was.
C16_PastelBlend ==
  (image.stage = "output" /\ image.engine = "image" /\ image.filter = "pastel")
    => /\ Blended(image.out.r, image.pixel.r)
       /\ Blended(image.out.g, image.pixel.g)
       /\ Blended(image.out.b, image.pixel.b)
       /\ image.out.a = image.pixel.a

----------------------------------------------------------------------------
(* Properties of the render loop in the booth.                             *)

\* The render about to be committed changes only the filter of a mounted
\* FilterOverlay whose loop has a callback scheduled.
FilterChangesWhileRunning ==
  /\ dirty # "none"
  /\ r.mounted /\ ~r.error /\ ~error /\ Len(photos) < photosNeeded
  /\ r.videoElement
  /\ selectedFilter # r.filter
  /\ fo.frameRef # 0

\* C18: a change of the filter while the loop runs does not restart it: the
\* render that commits the change does not run the cleanup of the
\* FilterOverlay effect, so the scheduled callback and the output surface
\* stay as they were.
C18_FilterChangeKeepsLoop ==
  [][FilterChangesWhileRunning
       => /\ ~last'.cleanup
          /\ chains' = chains
          /\ fo' = fo]_vars

----------------------------------------------------------------------------
(* Properties of camera acquisition.                                       *)

\* C19: at most one startWebcam call is in flight, and a step that starts
\* one leaves the stream the component held released.
C19_OneAcquisitionInFlight ==
  /\ [](Cardinality(tasks) <= 1)
  /\ [][Cardinality(tasks') > Cardinality(tasks)
          => (stream = 0 \/ stream \notin live')]_vars

\* The startWebcam calls of the mounted component that have neither
\* resolved nor failed.
InFlight == {t \in tasks : ~t.orphan}

\* C19 for the calls of the mounted component alone.
C19_OneInFlightPerInstance ==
  /\ [](Cardinality(InFlight) <= 1)
  /\ [][Cardinality(InFlight') > Cardinality(InFlight)
          => (stream = 0 \/ stream \notin live')]_vars

C19_InstanceWitness ==
  /\ Cardinality(InFlight) = 1
  /\ stream # 0
  /\ dirty = "none"

\* The callback chains that call onFilteredFrame when their frame comes.
Publishing ==
  {i \in DOMAIN chains : build = "src" => chains[i].alive}

\* C20: at most one recurring animation-frame callback chain publishes
\* surfaces of the video element, also after the filter or the video element
\* changed while an initialisation was waiting.
C20_OneRenderLoop == Cardinality(Publishing) <= 1

\* C20 in the 2D-canvas build alone, for every scheduled chain.
C20_OneRenderLoopCanvas == build = "alt" => Len(chains) <= 1

C20_CanvasWitness ==
  /\ build = "alt"
  /\ Len(chains) = 1
  /\ last.cleanup
  /\ filteredCanvas = "current"

----------------------------------------------------------------------------
(* Properties of readiness.                                                *)

\* C21: isVideoLoaded is true only when the element has fired both
\* loadedmetadata and canplay for the stream it shows; it is never true
\* after only one of them.
C21_UsableAfterBothSignals ==
  isVideoLoaded => (video.srcObject # 0 /\ video.ready = 3)

----------------------------------------------------------------------------
(* Properties of the camera lifecycle.                                     *)

\* The step mounts WebcamCapture, unmounts it, or is a click on Retry.
MountStep == dirty # "none" /\ ~r.mounted /\ Len(photos) < photosNeeded

UnmountStep == dirty # "none" /\ r.mounted /\ Len(photos) = photosNeeded

RetryStep == dirty = "none" /\ r.mounted /\ r.error /\ error' = FALSE

\* C22: getUserMedia is requested only by the mount of WebcamCapture or by a
\* click on Retry, and the stream held in state is stopped or detached from
\* the video element only by the unmount or by that Retry.
C22_AcquiredOnMountOrRetry ==
  [][/\ (\E t \in tasks' \ tasks : t.pc = "gum") => (MountStep \/ RetryStep)
     /\ (stream # 0 /\ stream \in live /\ video.srcObject = stream
           /\ (stream \notin live' \/ video'.srcObject # stream))
          => (UnmountStep \/ RetryStep)]_vars

----------------------------------------------------------------------------
(* Liveness of a session.                                                  *)

\* C23: once a session has been started and startWebcam has set the stream,
\* the photo count eventually reaches photosNeeded and the review is shown.
C23_SessionCompletes ==
  (isCapturing /\ stream # 0) ~> (Len(photos) = photosNeeded /\ ~r.mounted)

----------------------------------------------------------------------------
(* The filter recorded in a Photo.                                         *)

\* C24: the filter recorded in every Photo is the filter under which the
\* surface drawn into it was last rendered.
C24_PhotoFilterIsSurfaceFilter ==
  \A i \in DOMAIN shot.photos : shot.photos[i].filter = shot.photos[i].rendered

----------------------------------------------------------------------------
(* The idle countdown.                                                     *)

\* isCountdownActive is false: in App's state, or as WebcamCapture was last
\* rendered with it.
Idle == ~isCapturing \/ (r.mounted /\ ~r.isCountdownActive)

\* C25: while isCountdownActive is false the countdown does not change, no
\* capture is attempted and no Photo is added; a capture is attempted only at
\* countdown = 0, and the countdown goes down only by one, in the continuation
\* of a sleep of an active countdown.
C25_IdleCountdownIsInert ==
  [][/\ Idle =>
          (countdown' = countdown /\ photos' = photos
             /\ last'.capture # "attempt")
     /\ last'.capture = "attempt" => (~Idle /\ countdown = 0)
     /\ countdown' < countdown =>
          (~Idle /\ countdown' = countdown - 1
             /\ last'.sleep = "live")]_vars

\* The booth is idle with the camera ready and the surface published: a
\* capture would succeed if one were attempted.
C25_Witness ==
  /\ ~isCapturing /\ ~r.isCountdownActive
  /\ r.mounted /\ WasReady /\ dirty = "none"
  /\ last.publish = "loop"
  /\ countdown = countdownDuration /\ photos = << >> /\ timers = {}
====
